---- MODULE Spec2Model ----
(***************************************************************************)
(* Model of the two command-line tools of the repository:                  *)
(*   src/src/github-scraping.py  (list, filter, clone/pull repositories)   *)
(*   src/src/arxiv-scraping.py   (parse an Atom feed, name the PDF files)   *)
(*                                                                         *)
(* Text is modelled as a sequence of one-character strings, so that        *)
(* lower(), substring search, strip(), split() and slicing are computed.   *)
(* An Optional value is None (the empty tuple) or Some(v) (a 1-tuple).     *)
(***************************************************************************)
EXTENDS Integers, Sequences, FiniteSets, TLC

VARIABLES
    pc,           \* position of the running program
    gitFound,     \* environment: shutil.which("git") is not None
    gitDirs,      \* environment: repository names whose <dest>/<name>/.git exists
    args,         \* argparse.Namespace of github-scraping.py
    now,          \* int(time.time()) as read by request_with_rate_limit
    page,         \* fetch_all_repos: page
    repos,        \* fetch_all_repos: repos
    response,     \* request_with_rate_limit: response
    matched,      \* main: matched
    idx,          \* main: idx of the clone/pull loop
    clones_done,  \* main: clones_done
    exitCode,     \* process exit status
    log,          \* observable actions of the run, in order
    xml_content,  \* parse_response: the feed document
    papers,       \* parse_response: result
    title,        \* download_paper: paper['title']
    safe_title    \* download_paper: safe_title

vars == <<pc, gitFound, gitDirs, args, now, page, repos, response, matched, idx,
          clones_done, exitCode, log, xml_content, papers, title, safe_title>>

githubVarsButPc == <<gitFound, gitDirs, args, now, page, repos, response, matched,
                     idx, clones_done, exitCode, log>>
arxivVars == <<xml_content, papers, title, safe_title>>

----------------------------------------------------------------------------
(* Generic helpers *)

None == <<>>
Some(v) == <<v>>
Val(o) == o[1]

Max(a, b) == IF a >= b THEN a ELSE b
Min(a, b) == IF a <= b THEN a ELSE b

\* Python truthiness of an Optional[str]: None and "" are falsy.
Truthy(o) == o # None /\ Val(o) # <<>>

\* dict.get(key, default)
Get(d, k, default) == IF k \in DOMAIN d THEN d[k] ELSE default

RECURSIVE Flatten(_)
Flatten(ss) == IF ss = <<>> THEN <<>> ELSE Head(ss) \o Flatten(Tail(ss))

Map(f(_), s) == [i \in 1..Len(s) |-> f(s[i])]

Count(s, P(_)) == Cardinality({i \in 1..Len(s) : P(s[i])})

----------------------------------------------------------------------------
(* github-scraping.py: constants *)

MIN_CLONE_INTERVAL_SECONDS == 10

\* The safety margin and the minimum wait of the rate-limit backoff.
RESET_MARGIN_SECONDS == 2
MIN_BACKOFF_SECONDS == 1

(* Bounds of the model *)
MaxRequests == 3      \* HTTP requests to the listing endpoint in one run

----------------------------------------------------------------------------
(* github-scraping.py: inputs *)

Owner == <<"o">>
StrUnknown == <<"u", "n", "k", "n", "o", "w", "n">>

\* JSON items of the listing endpoint. A key may be missing; description may
\* be null. ssh_url is kept as one piece: no operation looks inside it.
ItemA == [name |-> <<"a">>, full_name |-> <<"o", "/", "a">>,
          ssh_url |-> <<"git@github.com:o/a.git">>,
          description |-> Some(<<"A", "b">>), owner |-> [login |-> <<"o">>]]
ItemB == [name |-> <<"b">>, archived |-> TRUE, description |-> None]

Pages == { <<>>, <<ItemA>>, <<ItemB, ItemA>> }

Intervals == {9, 10, 11}
Matches == {None, Some(<<"B">>)}
GitDirChoices == { {}, {<<"a">>}, {<<"a">>, <<"b">>} }
ExitCodes == {0, 128}

\* X-RateLimit-Reset relative to the time the response is read, and how much
\* longer than asked time.sleep() may take.
ResetOffsets == {-3, -1, 1}
Oversleeps == {0, 1}

\* A header value: absent, text that int() rejects, or the decimal text of n.
HdrAbsent == [kind |-> "absent"]
HdrText == [kind |-> "text"]
HdrInt(n) == [kind |-> "int", value |-> n]

JsonObject == [kind |-> "object"]
JsonList(items) == [kind |-> "list", items |-> items]

Resp(status, remaining, reset, body) ==
    [status |-> status, remaining |-> remaining, reset |-> reset, body |-> body]

\* The responses the server may give to a request read at time t.
Responses(t) ==
    {Resp(200, HdrInt(59), HdrInt(t + 60), JsonList(p)) : p \in Pages}
    \cup {Resp(200, HdrInt(0), HdrInt(t + 60), JsonObject)}
    \cup {Resp(403, HdrInt(0), HdrInt(t + o), JsonObject) : o \in ResetOffsets}
    \cup {Resp(403, HdrInt(0), h, JsonObject) : h \in {HdrAbsent, HdrText}}
    \cup {Resp(403, HdrInt(59), HdrInt(t + 60), JsonObject),
          Resp(403, HdrAbsent, HdrAbsent, JsonObject),
          Resp(404, HdrInt(58), HdrInt(t + 60), JsonObject)}

----------------------------------------------------------------------------
(* github-scraping.py: Repo and the listing *)

\* fetch_all_repos: one JSON item to one Repo, with the fallbacks for missing keys
DecodeRepo(item, owner) ==
    [owner |-> Get(Get(item, "owner", [x \in {} |-> x]), "login", owner),
     name |-> Get(item, "name", <<>>),
     full_name |-> Get(item, "full_name", owner \o <<"/">> \o StrUnknown),
     ssh_url |-> Get(item, "ssh_url",
                     <<"git@github.com:">> \o owner \o <<"/unknown.git">>),
     archived |-> Get(item, "archived", FALSE),
     description |-> Get(item, "description", None)]

DecodePage(items, owner) == [i \in 1..Len(items) |-> DecodeRepo(items[i], owner)]

----------------------------------------------------------------------------
(* github-scraping.py: request_with_rate_limit *)

\* Variant: every 403 is taken for a rate limit.
IsRateLimitedAny403(resp) == resp.status = 403

\* line 48: status 403 and X-RateLimit-Remaining == "0"
IsRateLimited(resp) == resp.status = 403 /\ resp.remaining = HdrInt(0)

\* lines 48-50: the branch that computes a wait (the reset header is present)
HasReset(resp) == IsRateLimited(resp) /\ resp.reset # HdrAbsent

\* line 51: int(reset) succeeds
ResetParses(resp) == resp.reset.kind = "int"

\* Variant: the safety margin is left out.
sleep_seconds_no_margin(reset_epoch, t) == Max(MIN_BACKOFF_SECONDS, reset_epoch - t)

\* line 52: max(1, reset_epoch - int(time.time()) + 2)
sleep_seconds(reset_epoch, t) ==
    Max(MIN_BACKOFF_SECONDS, reset_epoch - t + RESET_MARGIN_SECONDS)

\* line 56: the status that raises RuntimeError
IsErrorStatus(resp) == resp.status >= 400

----------------------------------------------------------------------------
(* github-scraping.py: filter_repos *)

\* str.lower() on the characters of the model
LowerChar(c) == CASE c = "A" -> "a" [] c = "B" -> "b" [] OTHER -> c
Lower(s) == [i \in 1..Len(s) |-> LowerChar(s[i])]

\* needle in hay
Contains(needle, hay) ==
    \E i \in 0..(Len(hay) - Len(needle)) : SubSeq(hay, i + 1, i + Len(needle)) = needle

\* re.search for patterns of literal characters and ".", which matches any
\* character except a newline
RegexSearch(pat, text) ==
    \E i \in 0..(Len(text) - Len(pat)) :
        \A j \in 1..Len(pat) :
            IF pat[j] = "." THEN text[i + j] # "\n" ELSE text[i + j] = pat[j]

\* line 119: f"{r.name}\n{r.full_name}\n{r.description or ''}"
text_blob(r) ==
    r.name \o <<"\n">> \o r.full_name \o <<"\n">>
        \o (IF Truthy(r.description) THEN Val(r.description) ELSE <<>>)

\* lines 104-106: the pattern is compiled only when it is truthy
compiled_regex(match_regex) == IF Truthy(match_regex) THEN match_regex ELSE None

\* lines 121-127: the three assignments to matched, in order
RepoMatched(r, match_substring, match_regex) ==
    LET m1 == Truthy(match_substring)
              /\ Contains(Lower(Val(match_substring)), Lower(text_blob(r)))
        m2 == m1 \/ (compiled_regex(match_regex) # None
                     /\ RegexSearch(Val(compiled_regex(match_regex)), text_blob(r)))
    IN  m2 \/ (match_substring = None /\ compiled_regex(match_regex) = None)

\* lines 108-131
filter_repos(rs, match_substring, match_regex, include_archived, include_forks) ==
    LET Keep(r) == /\ ~(~include_archived /\ r.archived)
                   /\ RepoMatched(r, match_substring, match_regex)
    IN  SelectSeq(rs, Keep)

----------------------------------------------------------------------------
(* github-scraping.py: the clone/pull loop *)

\* Variant: min() where max() is meant.
throttle_sleep_min(l, seconds) ==
    Append(l, [ev |-> "sleep", secs |-> Min(MIN_CLONE_INTERVAL_SECONDS, seconds)])

\* throttle_sleep: the time.sleep() it makes, as an entry of the log
throttle_sleep(l, seconds) ==
    Append(l, [ev |-> "sleep", secs |-> Max(MIN_CLONE_INTERVAL_SECONDS, seconds)])

\* Variant: the floor is compared one too low.
IntervalBelowFloorOffByOne(a) == a.interval < MIN_CLONE_INTERVAL_SECONDS - 1

\* line 216
IntervalBelowFloor(a) == a.interval < MIN_CLONE_INTERVAL_SECONDS

\* Variant: the destination root is tested instead of the repository directory.
HasGitDirOfRoot(repo, dirs) == <<>> \in dirs

\* line 253: os.path.isdir(os.path.join(repo_dest, ".git"))
HasGitDir(repo, dirs) == repo.name \in dirs

\* Variant: the counter is incremented whatever the exit code.
CountedAlways(n, code) == n + 1

\* lines 258-261 and 271-274
Counted(n, code) == IF code # 0 THEN n ELSE n + 1

NumRequests(l) == Count(l, LAMBDA e : e.ev = "http")

----------------------------------------------------------------------------
(* github-scraping.py: the run of main *)

NoResponse == Resp(0, HdrAbsent, HdrAbsent, JsonObject)
NoPapers == [raised |-> FALSE, value |-> <<>>]

ArxivIdle ==
    /\ xml_content = <<>>
    /\ papers = NoPapers
    /\ title = <<>>
    /\ safe_title = <<>>

GithubIdle ==
    /\ gitFound = TRUE
    /\ gitDirs = {}
    /\ now = 0
    /\ page = 0
    /\ response = NoResponse
    /\ idx = 0
    /\ clones_done = 0
    /\ exitCode = 0
    /\ log = <<>>

Init ==
    /\ pc = "start"
    /\ gitFound \in BOOLEAN
    /\ gitDirs \in GitDirChoices
    /\ args \in [owner : {Owner}, interval : Intervals, pull_if_exists : BOOLEAN,
                 sleep_on_skip : BOOLEAN, include_archived : BOOLEAN,
                 match : Matches, regex : {None}]
    /\ now = 0
    /\ page = 0
    /\ repos = <<>>
    /\ response = NoResponse
    /\ matched = <<>>
    /\ idx = 0
    /\ clones_done = 0
    /\ exitCode = 0
    /\ log = <<>>
    /\ ArxivIdle

\* sys.exit(code)
Exit(code) ==
    /\ pc' = "done"
    /\ exitCode' = code

\* lines 30-33: ensure_git_available finds no git
GitMissing ==
    /\ pc = "start"
    /\ ~gitFound
    /\ Exit(1)
    /\ UNCHANGED <<gitFound, gitDirs, args, now, page, repos, response, matched, idx,
                   clones_done, log, arxivVars>>

\* lines 216-221: the interval is below the floor
RejectInterval ==
    /\ pc = "start"
    /\ gitFound
    /\ IntervalBelowFloor(args)
    /\ Exit(2)
    /\ UNCHANGED <<gitFound, gitDirs, args, now, page, repos, response, matched, idx,
                   clones_done, log, arxivVars>>

\* lines 223-232 and 64-66: main enters fetch_all_repos
StartListing ==
    /\ pc = "start"
    /\ gitFound
    /\ ~IntervalBelowFloor(args)
    /\ pc' = "request"
    /\ page' = 1
    /\ repos' = <<>>
    /\ UNCHANGED <<gitFound, gitDirs, args, now, response, matched, idx, clones_done,
                   exitCode, log, arxivVars>>

\* line 47: requests.get; the server answers
SendRequest ==
    /\ pc = "request"
    /\ NumRequests(log) < MaxRequests
    /\ \E resp \in Responses(now) : response' = resp
    /\ log' = Append(log, [ev |-> "http", page |-> page, at |-> now])
    /\ pc' = "response"
    /\ UNCHANGED <<gitFound, gitDirs, args, now, page, repos, matched, idx,
                   clones_done, exitCode, arxivVars>>

\* lines 48-55: rate limited, the reset time is known: sleep, then the same request
RateLimitBackoff ==
    /\ pc = "response"
    /\ HasReset(response)
    /\ ResetParses(response)
    /\ LET secs == sleep_seconds(response.reset.value, now)
       IN  /\ \E over \in Oversleeps : now' = now + secs + over
           /\ log' = Append(log, [ev |-> "backoff", secs |-> secs, at |-> now,
                                  resp |-> response])
    /\ pc' = "request"
    /\ UNCHANGED <<gitFound, gitDirs, args, page, repos, response, matched, idx,
                   clones_done, exitCode, arxivVars>>

\* line 51 raises ValueError, or lines 56-59 raise RuntimeError; lines 233-235
\* of main catch it and exit with status 1
RequestFails ==
    /\ pc = "response"
    /\ \/ HasReset(response) /\ ~ResetParses(response)
       \/ ~HasReset(response) /\ IsErrorStatus(response)
    /\ log' = Append(log, [ev |-> "raise", in |-> "request_with_rate_limit",
                           resp |-> response])
    /\ Exit(1)
    /\ UNCHANGED <<gitFound, gitDirs, args, now, page, repos, response, matched, idx,
                   clones_done, arxivVars>>

\* line 60 returns the response
Returned(resp) == ~HasReset(resp) /\ ~IsErrorStatus(resp)

\* lines 77-78: the payload is not a list; main exits with status 1
UnexpectedPayload ==
    /\ pc = "response"
    /\ Returned(response)
    /\ response.body.kind # "list"
    /\ log' = Append(log, [ev |-> "raise", in |-> "fetch_all_repos", resp |-> response])
    /\ Exit(1)
    /\ UNCHANGED <<gitFound, gitDirs, args, now, page, repos, response, matched, idx,
                   clones_done, arxivVars>>

\* lines 79-80: an empty page ends the loop
IsLastPage(data) == Len(data) = 0

\* Variant: the page replaces the list instead of extending it.
AccumulateLastOnly(rs, data, owner) == DecodePage(data, owner)

\* lines 81-92: the Repos of one page are appended
Accumulate(rs, data, owner) == rs \o DecodePage(data, owner)

\* line 93
NextPage(p) == p + 1

\* lines 81-93: a page with items
ReceivePage ==
    /\ pc = "response"
    /\ Returned(response)
    /\ response.body.kind = "list"
    /\ ~IsLastPage(response.body.items)
    /\ repos' = Accumulate(repos, response.body.items, args.owner)
    /\ page' = NextPage(page)
    /\ log' = Append(log, [ev |-> "page", resp |-> response])
    /\ pc' = "request"
    /\ UNCHANGED <<gitFound, gitDirs, args, now, response, matched, idx, clones_done,
                   exitCode, arxivVars>>

\* lines 79-80, 94 and 237-248: the empty page; fetch_all_repos returns, main
\* filters the list and enters the loop
ReceiveEmptyPage ==
    /\ pc = "response"
    /\ Returned(response)
    /\ response.body.kind = "list"
    /\ IsLastPage(response.body.items)
    /\ matched' = filter_repos(repos, args.match, args.regex, args.include_archived, TRUE)
    /\ clones_done' = 0
    /\ idx' = 1
    /\ log' = Append(log, [ev |-> "listed", resp |-> response])
    /\ pc' = "loop"
    /\ UNCHANGED <<gitFound, gitDirs, args, now, page, repos, response, exitCode,
                   arxivVars>>

\* lines 253-263 and 267: the clone exists and --pull-if-exists is set
PullExisting ==
    /\ pc = "loop"
    /\ idx <= Len(matched)
    /\ HasGitDir(matched[idx], gitDirs)
    /\ args.pull_if_exists
    /\ \E code \in ExitCodes :
        /\ clones_done' = Counted(clones_done, code)
        /\ LET l == Append(log, [ev |-> "pull", idx |-> idx, code |-> code])
           IN  log' = IF args.sleep_on_skip THEN throttle_sleep(l, args.interval) ELSE l
    /\ idx' = idx + 1
    /\ UNCHANGED <<pc, gitFound, gitDirs, args, now, page, repos, response, matched,
                   exitCode, arxivVars>>

\* lines 253-254 and 264-267: the clone exists and is left alone
SkipExisting ==
    /\ pc = "loop"
    /\ idx <= Len(matched)
    /\ HasGitDir(matched[idx], gitDirs)
    /\ ~args.pull_if_exists
    /\ LET l == Append(log, [ev |-> "skip", idx |-> idx])
       IN  log' = IF args.sleep_on_skip THEN throttle_sleep(l, args.interval) ELSE l
    /\ idx' = idx + 1
    /\ UNCHANGED <<pc, gitFound, gitDirs, args, now, page, repos, response, matched,
                   clones_done, exitCode, arxivVars>>

\* lines 269-275: git clone, then the throttle sleep; a clone that exits with 0
\* leaves <dest>/<name>/.git behind
CloneRepo ==
    /\ pc = "loop"
    /\ idx <= Len(matched)
    /\ ~HasGitDir(matched[idx], gitDirs)
    /\ \E code \in ExitCodes :
        /\ clones_done' = Counted(clones_done, code)
        /\ gitDirs' = IF code = 0 THEN gitDirs \cup {matched[idx].name} ELSE gitDirs
        /\ log' = throttle_sleep(Append(log, [ev |-> "clone", idx |-> idx, code |-> code]),
                                 args.interval)
    /\ idx' = idx + 1
    /\ UNCHANGED <<pc, gitFound, args, now, page, repos, response, matched,
                   exitCode, arxivVars>>

\* line 277: the loop is over, main returns
Finish ==
    /\ pc = "loop"
    /\ idx > Len(matched)
    /\ log' = Append(log, [ev |-> "report", count |-> clones_done])
    /\ pc' = "done"
    /\ UNCHANGED <<gitFound, gitDirs, args, now, page, repos, response, matched, idx,
                   clones_done, exitCode, arxivVars>>

Next ==
    \/ GitMissing
    \/ RejectInterval
    \/ StartListing
    \/ SendRequest
    \/ RateLimitBackoff
    \/ RequestFails
    \/ UnexpectedPayload
    \/ ReceivePage
    \/ ReceiveEmptyPage
    \/ PullExisting
    \/ SkipExisting
    \/ CloneRepo
    \/ Finish

Spec == Init /\ [][Next]_vars

----------------------------------------------------------------------------
(* Claims about github-scraping.py, checked under Spec *)

IsGit(e) == e.ev \in {"clone", "pull"}
IsNetworkOrSubprocess(e) == e.ev \in {"http", "clone", "pull"}
Handled(e) == e.ev \in {"backoff", "raise", "page", "listed"}
Listed == \E i \in 1..Len(log) : log[i].ev = "listed"

\* The exit of a run whose interval is below the floor: it has stopped or not
\* yet begun, and nothing touched the network or started a subprocess.
NothingDoneBelowFloor ==
    /\ pc \in {"start", "done"}
    /\ \A i \in 1..Len(log) : ~IsNetworkOrSubprocess(log[i])

\* C1 as stated: with --interval below 10 the run exits with status 2 and
\* makes no HTTP request and starts no git subprocess.
C1_ExitsWithTwo ==
    args.interval < 10 =>
        /\ NothingDoneBelowFloor
        /\ pc = "done" => exitCode = 2

\* C1 amended: with --interval below 10 the run makes no HTTP request and
\* starts no git subprocess and exits with a non-zero status: 2 when git is
\* found, 1 (from ensure_git_available) when it is not.
C1_ExitsNonZero ==
    args.interval < 10 =>
        /\ NothingDoneBelowFloor
        /\ pc = "done" => exitCode = (IF gitFound THEN 2 ELSE 1)

C1_Witness == pc = "done" /\ args.interval < 10 /\ gitFound /\ exitCode = 2

\* log[i] and log[j] are successive git commands of the run
SuccessiveGit(i, j) ==
    /\ i < j
    /\ IsGit(log[i])
    /\ IsGit(log[j])
    /\ \A k \in (i + 1)..(j - 1) : ~IsGit(log[k])

\* a sleep of at least the throttle interval, at least 10 seconds, lies between
SleepBetween(i, j) ==
    \E k \in (i + 1)..(j - 1) :
        /\ log[k].ev = "sleep"
        /\ log[k].secs >= args.interval
        /\ log[k].secs >= 10

\* C2 as stated: any two successive git commands (clone or pull) of a run are
\* separated by a sleep of at least the throttle interval.
C2_AllGitThrottled ==
    \A i, j \in 1..Len(log) : SuccessiveGit(i, j) => SleepBetween(i, j)

\* C2 amended: two successive git commands are separated by a sleep of at
\* least the throttle interval when the earlier one is a clone or when
\* --sleep-on-skip is set.
C2_CloneThrottled ==
    \A i, j \in 1..Len(log) :
        (SuccessiveGit(i, j) /\ (log[i].ev = "clone" \/ args.sleep_on_skip))
            => SleepBetween(i, j)

C2_Witness ==
    \E i, j \in 1..Len(log) :
        SuccessiveGit(i, j) /\ log[i].ev = "clone" /\ args.interval > 10

\* the response is a rate-limit response: status 403, no quota remaining
QuotaExhausted(r) == r.status = 403 /\ r.remaining = HdrInt(0)

\* the event after a backoff is the same request again
Reissued(i) ==
    /\ i < Len(log) =>
        log[i + 1].ev = "http" /\ log[i + 1].page = log[i - 1].page
    /\ i = Len(log) => pc = "request" /\ page = log[i - 1].page

FatalForListing(i) ==
    /\ log[i].ev = "raise"
    /\ log[i].in = "request_with_rate_limit"
    /\ i = Len(log)
    /\ pc = "done"
    /\ exitCode = 1

ReturnedToCaller(i) ==
    \/ log[i].ev \in {"page", "listed"}
    \/ log[i].ev = "raise" /\ log[i].in = "fetch_all_repos"

\* C3 as stated: every 403 response with no quota remaining is answered by a
\* sleep and the same request again; every other response of status 400 or
\* above ends the run with exit code 1; a response below 400 is returned.
C3_EveryRateLimitRetried ==
    \A i \in 1..Len(log) : Handled(log[i]) =>
        LET r == log[i].resp
        IN  /\ QuotaExhausted(r) => log[i].ev = "backoff" /\ Reissued(i)
            /\ (~QuotaExhausted(r) /\ r.status >= 400) => FatalForListing(i)
            /\ r.status < 400 => ReturnedToCaller(i)

\* C3 amended: a 403 response with no quota remaining and an X-RateLimit-Reset
\* header that int() accepts is answered by a sleep and the same request
\* again; every other response of status 400 or above (a rate-limit response
\* with a missing or malformed reset header included) ends the run with exit
\* code 1; a response below 400 is returned.
C3_RateLimitWithResetRetried ==
    \A i \in 1..Len(log) : Handled(log[i]) =>
        LET r == log[i].resp
            retry == QuotaExhausted(r) /\ r.reset.kind = "int"
        IN  /\ retry => log[i].ev = "backoff" /\ Reissued(i)
            /\ (~retry /\ r.status >= 400) => FatalForListing(i)
            /\ r.status < 400 => ReturnedToCaller(i)

C3_Witness ==
    \E i \in 1..Len(log) :
        /\ log[i].ev = "backoff"
        /\ i < Len(log)
        /\ log[Len(log)].ev = "raise"
        /\ log[Len(log)].resp.status = 404

\* C4: the wait of a backoff is at least 1 second, and the request after it is
\* issued at least 1 second after the response was read and not before the
\* declared reset time plus 2 seconds.
C4_BackoffDuration ==
    \A i \in 1..Len(log) : log[i].ev = "backoff" =>
        /\ log[i].secs >= 1
        /\ i < Len(log) =>
            /\ log[i + 1].ev = "http"
            /\ log[i + 1].at >= log[i].at + 1
            /\ log[i + 1].at >= log[i].resp.reset.value + 2

C4_Witness ==
    \E i, j \in 1..Len(log) :
        /\ i < Len(log) /\ j < Len(log)
        /\ log[i].ev = "backoff" /\ log[i].resp.reset.value < log[i].at
        /\ log[j].ev = "backoff" /\ log[j].resp.reset.value > log[j].at

IsPageEvent(e) == e.ev = "page"
PageItems(e) == e.resp.body.items
ReceivedItems == Flatten(Map(PageItems, SelectSeq(log, IsPageEvent)))
PagesBefore(i) == Cardinality({j \in 1..(i - 1) : log[j].ev = "page"})

\* C5: the k-th page requested is page k (a request repeated after a backoff
\* asks for the same page again); the listing returns at the first empty page
\* and requests nothing after it; the list returned is the concatenation of
\* the non-empty pages received, in order.
C5_Pagination ==
    /\ \A i \in 1..Len(log) :
        /\ log[i].ev = "http" => log[i].page = PagesBefore(i) + 1
        /\ log[i].ev = "page" => Len(PageItems(log[i])) > 0
        /\ log[i].ev = "listed" =>
            /\ PageItems(log[i]) = <<>>
            /\ \A j \in (i + 1)..Len(log) : log[j].ev # "http"
    /\ Listed => repos = DecodePage(ReceivedItems, Owner)

C5_Witness ==
    /\ Listed
    /\ Cardinality({i \in 1..Len(log) : log[i].ev = "page"}) = 2
    /\ Len(repos) = 3

Visit(e) == e.ev \in {"clone", "pull", "skip"}
Visits == SelectSeq(log, Visit)
GitSucceeded(e) == IsGit(e) /\ e.code = 0

\* C9: a run that reaches the loop visits every matched repository once, in
\* list order, ends with exit code 0 and reports the number of git commands
\* that exited with 0, which is at most the number of matched repositories.
C9_FailuresNotFatal ==
    /\ Listed =>
        /\ clones_done = Count(log, GitSucceeded)
        /\ clones_done <= Len(matched)
        /\ \A k \in 1..Len(Visits) : Visits[k].idx = k
    /\ (Listed /\ pc = "done") =>
        /\ exitCode = 0
        /\ Len(Visits) = Len(matched)
        /\ log[Len(log)] = [ev |-> "report", count |-> Count(log, GitSucceeded)]

C9_Witness ==
    /\ pc = "done"
    /\ \E i, j \in 1..Len(log) :
        /\ IsGit(log[i]) /\ log[i].code # 0
        /\ IsGit(log[j]) /\ log[j].code = 0

\* the events one pass of the loop adds to the log
Added == SubSeq(log', Len(log) + 1, Len(log'))
AddedSleep == Count(Added, LAMBDA e : e.ev = "sleep")

\* what one pass of the loop over matched[idx] may add to the log
C10_Step ==
    (pc = "loop" /\ idx <= Len(matched)) =>
        LET present == matched[idx].name \in gitDirs
        IN  /\ Count(Added, IsGit) <= 1
            /\ ~present =>
                /\ Len(Added) = 2
                /\ Added[1].ev = "clone" /\ Added[1].idx = idx
                /\ Added[2] = [ev |-> "sleep", secs |-> args.interval]
            /\ present =>
                /\ Count(Added, LAMBDA e : e.ev = "clone") = 0
                /\ Count(Added, LAMBDA e : e.ev = "pull") =
                       (IF args.pull_if_exists THEN 1 ELSE 0)
                /\ AddedSleep = (IF args.sleep_on_skip THEN 1 ELSE 0)

\* C10: per repository, clone runs exactly when the destination has no .git
\* and is then followed by a sleep of the configured interval whatever its
\* exit code; when .git is there, clone does not run, pull runs exactly when
\* --pull-if-exists is set and a sleep occurs exactly when --sleep-on-skip is
\* set; at most one git command runs per repository.
C10_ActionSelection == [][C10_Step]_vars

C10_Witness ==
    \E i, j \in 1..Len(log) :
        /\ log[i].ev = "pull"
        /\ log[j].ev = "clone" /\ log[j].code # 0
        /\ ~args.sleep_on_skip

----------------------------------------------------------------------------
(* filter_repos on its own: SpecFilter *)

MaxFilterLen == 2     \* repositories in the list given to filter_repos

SeqsUpTo(S, n) == UNION {[1..k -> S] : k \in 0..n}

RepoA == DecodeRepo(ItemA, Owner)
RepoB == DecodeRepo(ItemB, Owner)
RepoC == [owner |-> Owner, name |-> <<"B">>, full_name |-> <<"o", "/", "B">>,
          ssh_url |-> <<"git@github.com:o/B.git">>, archived |-> FALSE,
          description |-> Some(<<>>)]

FilterRepos == {RepoA, RepoB, RepoC}
FilterMatches == {None, Some(<<>>), Some(<<"B">>), Some(<<"a", "\n", "o">>), Some(<<"x">>)}
FilterRegexes == {None, Some(<<>>), Some(<<"b">>), Some(<<"a", ".", "o">>), Some(<<"/", ".">>)}

InitFilter ==
    /\ pc = "filter"
    /\ repos \in SeqsUpTo(FilterRepos, MaxFilterLen)
    /\ args \in [owner : {Owner}, interval : {MIN_CLONE_INTERVAL_SECONDS},
                 pull_if_exists : {FALSE}, sleep_on_skip : {FALSE},
                 include_archived : BOOLEAN,
                 match : FilterMatches, regex : FilterRegexes]
    /\ matched = <<>>
    /\ GithubIdle
    /\ ArxivIdle

\* lines 239-245: the call of filter_repos
ApplyFilter ==
    /\ pc = "filter"
    /\ matched' = filter_repos(repos, args.match, args.regex, args.include_archived, TRUE)
    /\ pc' = "filtered"
    /\ UNCHANGED <<gitFound, gitDirs, args, now, page, repos, response, idx,
                   clones_done, exitCode, log, arxivVars>>

NextFilter == ApplyFilter

SpecFilter == InitFilter /\ [][NextFilter]_vars

\* the predicate of the claim: not dropped as archived, and no filter given,
\* or the substring found without regard to case, or the regex found
ClaimedKeep(r) ==
    /\ args.include_archived \/ ~r.archived
    /\ \/ args.match = None /\ args.regex = None
       \/ args.match # None /\ Contains(Lower(Val(args.match)), Lower(text_blob(r)))
       \/ args.regex # None /\ RegexSearch(Val(args.regex), text_blob(r))

\* C6: filter_repos returns the repositories of the input, in input order,
\* that are not dropped as archived and that match: no filter is given, or
\* the substring filter is found case-insensitively in name, full name and
\* description, or the regex filter is found there; for every value of the
\* two filters, the empty string included.
C6_FilterPredicate ==
    pc = "filtered" => matched = SelectSeq(repos, ClaimedKeep)

----------------------------------------------------------------------------
(* arxiv-scraping.py: the file name made by download_paper: SpecSanitize *)

SAFE_TITLE_LIMIT == 100

MaxPad == 100         \* leading letters of a title
MaxTail == 3          \* characters of a title after them

AsciiAlnum ==
    {"a", "b", "c", "d", "e", "f", "g", "h", "i", "j", "k", "l", "m", "n",
     "o", "p", "q", "r", "s", "t", "u", "v", "w", "x", "y", "z", "A", "B",
     "C", "D", "E", "F", "G", "H", "I", "J", "K", "L", "M", "N", "O", "P",
     "Q", "R", "S", "T", "U", "V", "W", "X", "Y", "Z", "0", "1", "2", "3",
     "4", "5", "6", "7", "8", "9"}

\* "e-acute" is one character: it stands for the letters and digits outside
\* ASCII, which str.isalnum() accepts too
NonAsciiAlnum == {"e-acute"}

TitleChars == {"a", " ", "-", "!", "\t"}

\* str.isalnum()
isalnum(c) == c \in AsciiAlnum \cup NonAsciiAlnum

\* str.isspace()
isspace(c) == c \in {" ", "\t", "\n"}

RECURSIVE rstrip(_)
rstrip(s) ==
    IF s # <<>> /\ isspace(s[Len(s)]) THEN rstrip(SubSeq(s, 1, Len(s) - 1)) ELSE s

RECURSIVE lstrip(_)
lstrip(s) == IF s # <<>> /\ isspace(s[1]) THEN lstrip(Tail(s)) ELSE s

strip(s) == lstrip(rstrip(s))

\* s[:n]
Prefix(s, n) == SubSeq(s, 1, Min(n, Len(s)))

\* line 93: the characters kept
KeptInName(c) == isalnum(c) \/ c \in {" ", "-", "_"}

\* lines 93-94
SafeTitle(t) == Prefix(rstrip(SelectSeq(t, KeptInName)), SAFE_TITLE_LIMIT)

Pad(n) == [i \in 1..n |-> "a"]

InitSanitize ==
    /\ pc = "title"
    /\ title \in {Pad(n) \o t : n \in 0..MaxPad, t \in SeqsUpTo(TitleChars, MaxTail)}
    /\ safe_title = <<>>
    /\ xml_content = <<>>
    /\ papers = NoPapers
    /\ args = [owner |-> Owner]
    /\ repos = <<>>
    /\ matched = <<>>
    /\ GithubIdle

\* lines 93-94 of download_paper
Sanitize ==
    /\ pc = "title"
    /\ safe_title' = SafeTitle(title)
    /\ pc' = "named"
    /\ UNCHANGED <<githubVarsButPc, xml_content, papers, title>>

NextSanitize == Sanitize

SpecSanitize == InitSanitize /\ [][NextSanitize]_vars

\* C7: the sanitized title holds only characters of [A-Za-z0-9 _-], has no
\* trailing whitespace, is at most 100 characters long, and sanitizing it
\* again leaves it unchanged.
C7_SafeTitle ==
    pc = "named" =>
        /\ \A i \in 1..Len(safe_title) : safe_title[i] \in AsciiAlnum \cup {" ", "_", "-"}
        /\ safe_title = <<>> \/ ~isspace(safe_title[Len(safe_title)])
        /\ Len(safe_title) <= 100
        /\ SafeTitle(safe_title) = safe_title

----------------------------------------------------------------------------
(* arxiv-scraping.py: parse_response: SpecParse *)

MaxEntries == 2       \* entry elements of a feed

UnknownTitle == <<"U", "n", "k", "n", "o", "w", "n", " ", "T", "i", "t", "l", "e">>

\* The result of find(): no element (None), or an element whose text is None
\* (an empty element) or a string.
ElemAbsent == None
ElemEmpty == Some(None)
ElemText(t) == Some(Some(t))

PdfLink(u) == [type |-> "application/pdf", href |-> Some(u)]
HtmlLink == [type |-> "text/html", href |-> Some(<<"w">>)]

EntryTitles == {ElemAbsent, ElemEmpty, ElemText(<<" ", "T", " ">>)}
EntrySummaries == {ElemAbsent, ElemEmpty, ElemText(<<"S", "\n">>)}
EntryIds == {ElemAbsent, ElemEmpty, ElemText(<<"h", "/", "v", "/", "1">>)}
EntryAuthors == { <<>>, <<[name |-> ElemAbsent]>>,
                  <<[name |-> ElemText(<<"N">>)], [name |-> ElemEmpty]>> }
EntryLinks == { <<>>, <<HtmlLink, [href |-> Some(<<"x">>)]>>,
                <<HtmlLink, PdfLink(<<"p">>), PdfLink(<<"q">>)>> }

Entries == [title : EntryTitles, summary : EntrySummaries, id : EntryIds,
            authors : EntryAuthors, links : EntryLinks]

\* str.split('/')[-1]
RECURSIVE LastSegment(_)
LastSegment(s) ==
    IF \E i \in 1..Len(s) : s[i] = "/"
    THEN LastSegment(SubSeq(s, (CHOOSE i \in 1..Len(s) : s[i] = "/") + 1, Len(s)))
    ELSE s

\* lines 55, 67 and 72: .text.strip() and .text.split() of an element whose
\* text is None raise AttributeError
TextMissing(elem) == elem # None /\ Val(elem) = None
EntryRaises(entry) ==
    TextMissing(entry.title) \/ TextMissing(entry.summary) \/ TextMissing(entry.id)

\* lines 58-62: the text of every name element, None for an empty one
AuthorNames(authors) ==
    LET named == SelectSeq(authors, LAMBDA a : a.name # None)
    IN  [i \in 1..Len(named) |-> Val(named[i].name)]

IsPdf(link) == Get(link, "type", "") = "application/pdf"

\* lines 51-79: the dict made of one entry that does not raise
Paper(entry) ==
    [title |-> IF entry.title # None THEN strip(Val(Val(entry.title))) ELSE UnknownTitle,
     authors |-> AuthorNames(entry.authors),
     summary |-> IF entry.summary # None THEN strip(Val(Val(entry.summary))) ELSE <<>>]
    @@ (IF entry.id # None
        THEN [k \in {"arxiv_id"} |-> LastSegment(Val(Val(entry.id)))]
        ELSE [k \in {} |-> <<>>])
    @@ (IF \E i \in 1..Len(entry.links) : IsPdf(entry.links[i])
        THEN [k \in {"pdf_url"} |->
                 Get(entry.links[CHOOSE i \in 1..Len(entry.links) :
                                     /\ IsPdf(entry.links[i])
                                     /\ \A j \in 1..(i - 1) : ~IsPdf(entry.links[j])],
                     "href", None)]
        ELSE [k \in {} |-> <<>>])

\* lines 39-83
parse_response(entries) ==
    IF \E i \in 1..Len(entries) : EntryRaises(entries[i])
    THEN [raised |-> TRUE, value |-> <<>>]
    ELSE [raised |-> FALSE, value |-> [i \in 1..Len(entries) |-> Paper(entries[i])]]

InitParse ==
    /\ pc = "feed"
    /\ xml_content \in SeqsUpTo(Entries, MaxEntries)
    /\ papers = NoPapers
    /\ title = <<>>
    /\ safe_title = <<>>
    /\ args = [owner |-> Owner]
    /\ repos = <<>>
    /\ matched = <<>>
    /\ GithubIdle

\* line 34: search_papers calls parse_response
Parse ==
    /\ pc = "feed"
    /\ papers' = parse_response(xml_content)
    /\ pc' = "parsed"
    /\ UNCHANGED <<githubVarsButPc, xml_content, title, safe_title>>

NextParse == Parse

SpecParse == InitParse /\ [][NextParse]_vars

NoText(elem) == elem = ElemAbsent \/ elem = ElemEmpty

\* C8: for a feed whose entries may lack, or have empty, title, summary, id,
\* author name and PDF link, parsing does not raise and yields one record
\* per entry in document order, with title "Unknown Title" and summary ""
\* by default and no pdf_url when no link has type application/pdf.
C8_ParseTotal ==
    pc = "parsed" =>
        /\ ~papers.raised
        /\ Len(papers.value) = Len(xml_content)
        /\ \A i \in 1..Len(xml_content) :
            LET e == xml_content[i]
                p == papers.value[i]
            IN  /\ NoText(e.title) => p.title = UnknownTitle
                /\ NoText(e.summary) => p.summary = <<>>
                /\ ~NoText(e.title) => p.title = <<"T">>
                /\ (\A k \in 1..Len(e.links) : ~IsPdf(e.links[k]))
                       => "pdf_url" \notin DOMAIN p

====
